---- MODULE Spec2Model ----
(***************************************************************************)
(* BsonFormattable (src/src/bson/formattable.rs): the conversions between  *)
(* native values and the Document value model.                             *)
(*                                                                         *)
(* Representation of values                                                *)
(*   integer of kind T   its little-endian bytes, Width(T, word) of them   *)
(*   float               <<neg, exp, sig>>: sig the significand's bits,    *)
(*                       most significant first, without leading or        *)
(*                       trailing zeros; the value is 1.sig[2..] * 2^exp,  *)
(*                       and <<FALSE, 0, <<>>>> is 0.0 (finite values)      *)
(*   ~str                a string                                          *)
(*   Document            <<tag, payload...>>, one tag per variant          *)
(*   BsonDocument        its fields: a sequence of <<key, Document>>       *)
(*   json::Json          <<tag, payload>>                                  *)
(*   ~[T]                a sequence                                        *)
(*   HashMap<~str,V>     read by iteration: the sequence of <<key, value>> *)
(*                       its iterator yields; built by insert: the         *)
(*                       function from its keys to its values              *)
(*   Result              <<"Ok", v>> or <<"Err", message, arguments>>      *)
(*   a type              <<name>> or <<constructor, type>>                 *)
(*                                                                         *)
(* ~str::to_bson_t, which hands the string to the extended-JSON parser of  *)
(* json_parse, is outside this module.                                     *)
(***************************************************************************)
EXTENDS Integers, Sequences, FiniteSets, TLC

VARIABLES pc, word, op, target, arg, bson, out, visited

vars == <<pc, word, op, target, arg, bson, out, visited>>

(***************************************************************************)
(* Bounds of the model.                                                    *)
(***************************************************************************)
\* the most fields a document tree given to from_bson_t holds, all levels together
MaxFields == 3
\* the longest native list or map given to to_bson_t
MaxLen == 2

(***************************************************************************)
(* Sequences and bits.                                                     *)
(***************************************************************************)
RECURSIVE Repeat(_, _)
Repeat(x, n) == IF n <= 0 THEN <<>> ELSE <<x>> \o Repeat(x, n - 1)

Reverse(s) == [i \in 1..Len(s) |-> s[Len(s) + 1 - i]]

RECURSIVE Pow2(_)
Pow2(n) == IF n = 0 THEN 1 ELSE 2 * Pow2(n - 1)

\* the 8 bits of a byte, least significant first
ByteBits(b) == [i \in 1..8 |-> (b \div Pow2(i - 1)) % 2]

RECURSIVE BitsLE(_)
BitsLE(bytes) ==
    IF bytes = <<>> THEN <<>> ELSE ByteBits(Head(bytes)) \o BitsLE(Tail(bytes))

RECURSIVE StripLeadingZeros(_)
StripLeadingZeros(s) ==
    IF s = <<>> \/ Head(s) = 1 THEN s ELSE StripLeadingZeros(Tail(s))

StripTrailingZeros(s) == Reverse(StripLeadingZeros(Reverse(s)))

\* bits, least significant first, plus one (the carry out of the top is dropped)
RECURSIVE IncLE(_)
IncLE(bits) ==
    IF bits = <<>> THEN <<>>
    ELSE IF Head(bits) = 0 THEN <<1>> \o Tail(bits)
    ELSE <<0>> \o IncLE(Tail(bits))

\* two's complement negation of bits, least significant first
NegateLE(bits) == IncLE([i \in 1..Len(bits) |-> 1 - bits[i]])

(***************************************************************************)
(* The integer kinds of the i32_fmt! instantiations, and i32 and i64.      *)
(***************************************************************************)
I32Kinds == {"i8", "i16", "int", "u8", "u16", "u32", "uint", "char"}

IntKinds == I32Kinds \cup {"i32", "i64"}

FloatKinds == {"f32", "float"}

\* bytes of an integer kind; int and uint are the platform's word
Width(T, w) ==
    CASE T \in {"i8", "u8"} -> 1
      [] T \in {"i16", "u16"} -> 2
      [] T \in {"i32", "u32", "char"} -> 4
      [] T = "i64" -> 8
      [] T \in {"int", "uint"} -> w

Signed(T) == T \in {"i8", "i16", "i32", "i64", "int"}

\* significand bits of a float kind; float is the 64-bit float
Precision(T) == IF T = "f32" THEN 24 ELSE 53

\* CastInt filling a wider target with zeros whatever the source's sign
CastIntZeroFill(v, fromSigned, toWidth) ==
    IF toWidth <= Len(v) THEN SubSeq(v, 1, toWidth)
    ELSE v \o Repeat(0, toWidth - Len(v))

\* `v as T` between integer kinds: the low bytes are kept, and a wider target is
\* filled with the sign of a signed source, with zeros for an unsigned one
CastInt(v, fromSigned, toWidth) ==
    IF toWidth <= Len(v) THEN SubSeq(v, 1, toWidth)
    ELSE v \o Repeat(IF fromSigned /\ v[Len(v)] >= 128 THEN 255 ELSE 0,
                     toWidth - Len(v))

\* a significand rounded to prec bits, to nearest, ties to even
RoundSig(neg, exp, s, prec) ==
    IF Len(s) <= prec THEN <<neg, exp, StripTrailingZeros(s)>>
    ELSE LET head == SubSeq(s, 1, prec)
             rest == SubSeq(s, prec + 1, Len(s))
             sticky == \E i \in 2..Len(rest) : rest[i] = 1
             up == rest[1] = 1 /\ (sticky \/ head[prec] = 1)
             carry == up /\ \A i \in 1..prec : head[i] = 1
             inc == Reverse(IncLE(Reverse(head)))
         IN  IF ~up THEN <<neg, exp, StripTrailingZeros(head)>>
             ELSE IF carry THEN <<neg, exp + 1, <<1>>>>
             ELSE <<neg, exp, StripTrailingZeros(inc)>>

\* `v as T` from an integer kind to a float kind
IntToFloat(v, fromSigned, prec) ==
    LET neg == fromSigned /\ v[Len(v)] >= 128
        mag == IF neg THEN NegateLE(BitsLE(v)) ELSE BitsLE(v)
        s == StripLeadingZeros(Reverse(mag))
    IN  IF s = <<>> THEN <<FALSE, 0, <<>>>>
        ELSE RoundSig(neg, Len(s) - 1, s, prec)

\* `f as T` between float kinds
CastFloat(f, prec) == RoundSig(f[1], f[2], f[3], prec)

(***************************************************************************)
(* Results and the document container.                                     *)
(***************************************************************************)
Ok(v) == <<"Ok", v>>

Err(msg, args) == <<"Err", msg, args>>

IsOk(r) == r[1] = "Ok"

\* BsonDocument::new()
NewDoc == <<>>

\* BsonDocument::put: a new key is appended, a key already present keeps its
\* place and takes the new value
Put(fields, k, v) ==
    IF \E i \in 1..Len(fields) : fields[i][1] = k
    THEN [i \in 1..Len(fields) |-> IF fields[i][1] = k THEN <<k, v>> ELSE fields[i]]
    ELSE Append(fields, <<k, v>>)

\* HashMap::new() and HashMap::insert
NewMap == <<>>

MapInsert(m, k, v) == [x \in (DOMAIN m) \cup {k} |-> IF x = k THEN v ELSE m[x]]

Digit == <<"0", "1", "2", "3", "4", "5", "6", "7", "8", "9">>

\* uint::to_str: the decimal digits
RECURSIVE ToStr(_)
ToStr(i) == IF i < 10 THEN Digit[i + 1] ELSE ToStr(i \div 10) \o Digit[(i % 10) + 1]

\* to_str of a ~str: a copy
StrToStr(k) == k

(***************************************************************************)
(* The scalar implementations.                                             *)
(***************************************************************************)
F64ToBson(v) == <<"Double", v>>

F64FromBson(doc) ==
    IF doc[1] = "Double" THEN Ok(doc[2])
    ELSE Err("can only cast Double to f64", <<>>)

I32ToBson(v) == <<"Int32", v>>

I32FromBson(doc) ==
    IF doc[1] = "Int32" THEN Ok(doc[2])
    ELSE Err("can only cast Int32 to i32", <<>>)

I64ToBson(v) == <<"Int64", v>>

\* I64FromBson without the UTCDate arm
I64FromBsonNoDate(doc) ==
    CASE doc[1] = "Int64" -> Ok(doc[2])
      [] doc[1] = "Timestamp" -> Ok(doc[2])
      [] OTHER -> Err("can only cast Int64, Date, and Timestamp to i64", <<>>)

I64FromBson(doc) ==
    CASE doc[1] = "Int64" -> Ok(doc[2])
      [] doc[1] = "UTCDate" -> Ok(doc[2])
      [] doc[1] = "Timestamp" -> Ok(doc[2])
      [] OTHER -> Err("can only cast Int64, Date, and Timestamp to i64", <<>>)

\* float_fmt!
FloatFmtToBson(T, v) == F64ToBson(CastFloat(v, 53))

FloatFmtFromBson(T, doc) ==
    LET r == F64FromBson(doc)
    IN  IF IsOk(r) THEN Ok(CastFloat(r[2], Precision(T))) ELSE r

\* i32_fmt!
I32FmtToBson(T, w, v) == I32ToBson(CastInt(v, Signed(T), 4))

I32FmtFromBson(T, w, doc) ==
    LET r == I32FromBson(doc)
    IN  IF IsOk(r) THEN Ok(CastInt(r[2], TRUE, Width(T, w))) ELSE r

StrFromBson(doc) ==
    IF doc[1] = "UString" THEN Ok(doc[2])
    ELSE Err("could not convert %? to string", <<doc>>)

BsonDocumentToBson(d) == <<"Embedded", d>>

BsonDocumentFromBson(doc) ==
    CASE doc[1] = "Embedded" -> Ok(doc[2])
      [] doc[1] = "Array" -> Ok(doc[2])
      [] OTHER -> Err("can only convert Embedded and Array to BsonDocument", <<>>)

(***************************************************************************)
(* The generic implementations, and the dispatch on the type.              *)
(***************************************************************************)
RECURSIVE ToBson(_, _, _)
RECURSIVE FromBson(_, _, _)
RECURSIVE VecPutLoop(_, _, _)
RECURSIVE VecToBson(_, _, _)
RECURSIVE VecLoop(_, _, _, _, _)
RECURSIVE VecFromBson(_, _, _)
RECURSIVE MapPutLoop(_, _, _, _, _)
RECURSIVE MapToBson(_, _, _)
RECURSIVE MapLoop(_, _, _, _, _)
RECURSIVE MapFromBson(_, _, _)
RECURSIVE JsonToBson(_, _)
RECURSIVE JsonFromBson(_, _)

\* impl BsonFormattable for ~T
BoxToBson(T, w, v) == ToBson(T, w, v)

BoxFromBson(T, w, doc) ==
    LET r == FromBson(T, w, doc)
    IN  IF IsOk(r) THEN Ok(r[2]) ELSE r

\* VecPutLoop with the keys counted from one
VecPutLoopFromOne(s, i, doc) ==
    IF i >= Len(s) THEN doc
    ELSE VecPutLoop(s, i + 1, Put(doc, ToStr(i + 1), s[i + 1]))

\* ~[T]::to_bson_t's loop: s[i + 1] is put under i.to_str()
VecPutLoop(s, i, doc) ==
    IF i >= Len(s) THEN doc
    ELSE VecPutLoop(s, i + 1, Put(doc, ToStr(i), s[i + 1]))

VecToBson(T, w, l) ==
    LET s == [i \in 1..Len(l) |-> ToBson(T, w, l[i])]
    IN  <<"Array", VecPutLoop(s, 0, NewDoc)>>

\* VecLoop answering a failing element with the list's own error
VecLoopListError(T, w, fields, i, ret) ==
    IF i > Len(fields) THEN [res |-> Ok(ret), n |-> i - 1]
    ELSE LET r == FromBson(T, w, fields[i][2])
         IN  IF IsOk(r) THEN VecLoop(T, w, fields, i + 1, Append(ret, r[2]))
             ELSE [res |-> Err("only Arrays can be converted to lists", <<>>), n |-> i]

\* ~[T]::from_bson_t's loop over d.fields from field i on, ret the list so far,
\* n the fields given to T::from_bson_t so far: the result, and n at the return
VecLoop(T, w, fields, i, ret) ==
    IF i > Len(fields) THEN [res |-> Ok(ret), n |-> i - 1]
    ELSE LET r == FromBson(T, w, fields[i][2])
         IN  IF IsOk(r) THEN VecLoop(T, w, fields, i + 1, Append(ret, r[2]))
             ELSE [res |-> r, n |-> i]

\* VecFromBson taking element i from the field whose key is i.to_str()
VecFromBsonByKey(T, w, doc) ==
    IF doc[1] = "Array"
    THEN LET d == doc[2]
             at(i) == {j \in 1..Len(d) : d[j][1] = ToStr(i - 1)}
         IN  IF \E i \in 1..Len(d) : at(i) = {}
             THEN Err("missing index", <<>>)
             ELSE VecLoop(T, w, [i \in 1..Len(d) |-> d[CHOOSE j \in at(i) : TRUE]],
                          1, <<>>).res
    ELSE Err("only Arrays can be converted to lists", <<>>)

VecFromBson(T, w, doc) ==
    IF doc[1] = "Array" THEN VecLoop(T, w, doc[2], 1, <<>>).res
    ELSE Err("only Arrays can be converted to lists", <<>>)

\* the fields ~[T]::from_bson_t gave to T::from_bson_t before it returned
VecVisited(T, w, doc) ==
    IF doc[1] = "Array" THEN VecLoop(T, w, doc[2], 1, <<>>).n ELSE 0

\* HashMap::to_bson_t's loop over the map's iterator
MapPutLoop(V, w, entries, i, doc) ==
    IF i > Len(entries) THEN doc
    ELSE MapPutLoop(V, w, entries, i + 1,
                    Put(doc, StrToStr(entries[i][1]), ToBson(V, w, entries[i][2])))

MapToBson(V, w, entries) == <<"Embedded", MapPutLoop(V, w, entries, 1, NewDoc)>>

\* HashMap::from_bson_t's loop over d.fields (the same in both arms)
MapLoop(V, w, fields, i, m) ==
    IF i > Len(fields) THEN Ok(m)
    ELSE LET r == FromBson(V, w, fields[i][2])
         IN  IF IsOk(r) THEN MapLoop(V, w, fields, i + 1, MapInsert(m, fields[i][1], r[2]))
             ELSE r

MapArmEmbedded(V, w, d) == MapLoop(V, w, d, 1, NewMap)

\* MapArmArray keying each value by its position
MapArmArrayByIndex(V, w, d) ==
    MapLoop(V, w, [i \in 1..Len(d) |-> <<ToStr(i - 1), d[i][2]>>], 1, NewMap)

MapArmArray(V, w, d) == MapLoop(V, w, d, 1, NewMap)

MapFromBson(V, w, doc) ==
    CASE doc[1] = "Embedded" -> MapArmEmbedded(V, w, doc[2])
      [] doc[1] = "Array" -> MapArmArray(V, w, doc[2])
      [] OTHER -> Err("can only convert Embedded or Array to hashmap", <<>>)

\* JsonToBson giving a string as JScript
JsonToBsonJScript(w, j) ==
    CASE j[1] = "Null" -> <<"Null">>
      [] j[1] = "Number" -> <<"Double", CastFloat(j[2], 53)>>
      [] j[1] = "String" -> <<"JScript", j[2]>>
      [] j[1] = "Boolean" -> <<"Bool", j[2]>>
      [] j[1] = "List" -> ToBson(<<"vec", <<"Json">>>>, w, j[2])
      [] j[1] = "Object" -> ToBson(<<"box", <<"map", <<"Json">>>>>>, w, j[2])

\* impl BsonFormattable for json::Json
JsonToBson(w, j) ==
    CASE j[1] = "Null" -> <<"Null">>
      [] j[1] = "Number" -> <<"Double", CastFloat(j[2], 53)>>
      [] j[1] = "String" -> <<"UString", j[2]>>
      [] j[1] = "Boolean" -> <<"Bool", j[2]>>
      [] j[1] = "List" -> ToBson(<<"vec", <<"Json">>>>, w, j[2])
      [] j[1] = "Object" -> ToBson(<<"box", <<"map", <<"Json">>>>>>, w, j[2])

JsonArmEmbedded(w, a) ==
    LET r == FromBson(<<"map", <<"Json">>>>, w, <<"Embedded", a>>)
    IN  IF IsOk(r) THEN Ok(<<"Object", r[2]>>) ELSE r

JsonArmArray(w, a) ==
    LET r == FromBson(<<"vec", <<"Json">>>>, w, <<"Embedded", a>>)
    IN  IF IsOk(r) THEN Ok(<<"List", r[2]>>) ELSE r

\* JsonFromBson giving the pattern of a Regex as a string
JsonFromBsonRegex(w, doc) ==
    CASE doc[1] = "Double" -> Ok(<<"Number", CastFloat(doc[2], 53)>>)
      [] doc[1] \in {"UString", "JScript", "Regex"} -> Ok(<<"String", doc[2]>>)
      [] doc[1] = "Embedded" -> JsonArmEmbedded(w, doc[2])
      [] doc[1] = "Array" -> JsonArmArray(w, doc[2])
      [] doc[1] = "Bool" -> Ok(<<"Boolean", doc[2]>>)
      [] doc[1] = "Null" -> Ok(<<"Null">>)
      [] doc[1] \in {"UTCDate", "Int32", "Timestamp", "Int64"} ->
            Ok(<<"Number", IntToFloat(doc[2], TRUE, 53)>>)
      [] OTHER -> Err("cannot be translated to Json", <<>>)

JsonFromBson(w, doc) ==
    CASE doc[1] = "Double" -> Ok(<<"Number", CastFloat(doc[2], 53)>>)
      [] doc[1] = "UString" -> Ok(<<"String", doc[2]>>)
      [] doc[1] = "Embedded" -> JsonArmEmbedded(w, doc[2])
      [] doc[1] = "Array" -> JsonArmArray(w, doc[2])
      [] doc[1] = "Binary" -> Err("bindata cannot be translated to Json", <<>>)
      [] doc[1] = "ObjectId" -> Err("objid cannot be translated to Json", <<>>)
      [] doc[1] = "Bool" -> Ok(<<"Boolean", doc[2]>>)
      [] doc[1] = "UTCDate" -> Ok(<<"Number", IntToFloat(doc[2], TRUE, 53)>>)
      [] doc[1] = "Null" -> Ok(<<"Null">>)
      [] doc[1] = "Regex" -> Err("regex cannot be translated to Json", <<>>)
      [] doc[1] = "JScript" -> Ok(<<"String", doc[2]>>)
      [] doc[1] = "JScriptWithScope" -> Err("jscope cannot be translated to Json", <<>>)
      [] doc[1] = "Int32" -> Ok(<<"Number", IntToFloat(doc[2], TRUE, 53)>>)
      [] doc[1] = "Timestamp" -> Ok(<<"Number", IntToFloat(doc[2], TRUE, 53)>>)
      [] doc[1] = "Int64" -> Ok(<<"Number", IntToFloat(doc[2], TRUE, 53)>>)
      [] doc[1] = "MinKey" -> Err("minkey cannot be translated to Json", <<>>)
      [] doc[1] = "MaxKey" -> Err("maxkey cannot be translated to Json", <<>>)

\* BsonFormattable::to_bson_t of a value of type T
ToBson(T, w, v) ==
    CASE T[1] = "f64" -> F64ToBson(v)
      [] T[1] = "i32" -> I32ToBson(v)
      [] T[1] = "i64" -> I64ToBson(v)
      [] T[1] \in FloatKinds -> FloatFmtToBson(T[1], v)
      [] T[1] \in I32Kinds -> I32FmtToBson(T[1], w, v)
      [] T[1] = "box" -> BoxToBson(T[2], w, v)
      [] T[1] = "Json" -> JsonToBson(w, v)
      [] T[1] = "vec" -> VecToBson(T[2], w, v)
      [] T[1] = "map" -> MapToBson(T[2], w, v)
      [] T[1] = "BsonDocument" -> BsonDocumentToBson(v)

\* BsonFormattable::from_bson_t::<T>
FromBson(T, w, doc) ==
    CASE T[1] = "f64" -> F64FromBson(doc)
      [] T[1] = "i32" -> I32FromBson(doc)
      [] T[1] = "i64" -> I64FromBson(doc)
      [] T[1] \in FloatKinds -> FloatFmtFromBson(T[1], doc)
      [] T[1] \in I32Kinds -> I32FmtFromBson(T[1], w, doc)
      [] T[1] = "str" -> StrFromBson(doc)
      [] T[1] = "box" -> BoxFromBson(T[2], w, doc)
      [] T[1] = "Json" -> JsonFromBson(w, doc)
      [] T[1] = "vec" -> VecFromBson(T[2], w, doc)
      [] T[1] = "map" -> MapFromBson(T[2], w, doc)
      [] T[1] = "BsonDocument" -> BsonDocumentFromBson(doc)

(***************************************************************************)
(* The values the calls are made with.                                     *)
(***************************************************************************)
ByteSamples == {0, 1, 127, 128, 255}

SignSamples == {0, 127, 128, 255}

Bytes4 == {<<a, b, c, d>> : a \in SignSamples, b \in SignSamples,
                            c \in SignSamples, d \in SignSamples}
          \cup {<<1, 0, 0, 0>>, <<2, 0, 0, 0>>, <<3, 0, 0, 0>>}

Low4 == {<<a, b, c, d>> : a \in {0, 255}, b \in {0, 255}, c \in {0, 255},
                          d \in SignSamples}

High4 == {<<0, 0, 0, 0>>, <<255, 255, 255, 255>>, <<1, 0, 0, 0>>,
          <<255, 255, 255, 127>>, <<0, 0, 0, 128>>}

Bytes8 == {lo \o hi : lo \in Low4, hi \in High4}

\* 0, 1, 150, -1, the least and the greatest i64, 2^53 + 1 and 2^63 - 2^10
Wide == {<<0, 0, 0, 0, 0, 0, 0, 0>>, <<1, 0, 0, 0, 0, 0, 0, 0>>,
         <<150, 0, 0, 0, 0, 0, 0, 0>>,
         <<255, 255, 255, 255, 255, 255, 255, 255>>,
         <<0, 0, 0, 0, 0, 0, 0, 128>>, <<255, 255, 255, 255, 255, 255, 255, 127>>,
         <<1, 0, 0, 0, 0, 0, 32, 0>>, <<0, 252, 255, 255, 255, 255, 255, 127>>}

\* the code points up to 0x10FFFF
Chars == {<<a, b, c, 0>> : a \in {0, 65, 255}, b \in {0, 216, 255}, c \in {0, 16}}

\* values of an integer kind
IntValues(T, w) ==
    CASE T = "char" -> Chars
      [] Width(T, w) = 1 -> {<<a>> : a \in ByteSamples}
      [] Width(T, w) = 2 -> {<<a, b>> : a \in ByteSamples, b \in ByteSamples}
      [] Width(T, w) = 4 -> Bytes4
      [] Width(T, w) = 8 -> Bytes8

One == <<1, 0, 0, 0>>

Ones(n) == [i \in 1..n |-> 1]

\* 0.0, 1.0, 5.0, -1.5, 16777215.0 and -0.75: each is an f32
F32Values == {<<FALSE, 0, <<>>>>, <<FALSE, 0, <<1>>>>, <<FALSE, 2, <<1, 0, 1>>>>,
              <<TRUE, 0, <<1, 1>>>>, <<FALSE, 23, Ones(24)>>, <<TRUE, -1, <<1, 1>>>>}

\* and 33554431.0, 16777217.0 and 2^53 - 1, which no f32 holds
F64Values == F32Values \cup {<<FALSE, 24, Ones(25)>>,
                             <<FALSE, 24, <<1>> \o [i \in 1..23 |-> 0] \o <<1>>>>,
                             <<TRUE, 52, Ones(53)>>}

FloatValues(T) == IF T = "f32" THEN F32Values ELSE F64Values

Strings == {"", "foo"}

\* documents that are no container
LeafDocs ==
    {<<"Double", f>> : f \in F64Values}
    \cup {<<"Int32", i>> : i \in Bytes4}
    \cup {<<t, i>> : t \in {"Int64", "UTCDate", "Timestamp"}, i \in Wide}
    \cup {<<t, s>> : t \in {"UString", "JScript"}, s \in Strings}
    \cup {<<"Bool", b>> : b \in BOOLEAN}
    \cup {<<"Binary", 0, <<0>>>>, <<"Binary", 128, <<>>>>}
    \cup {<<"ObjectId", <<0>>>>, <<"ObjectId", [i \in 1..12 |-> 255]>>}
    \cup {<<"Regex", "A", "B">>, <<"Regex", "", "">>}
    \cup {<<"JScriptWithScope", "foo", <<>>>>,
          <<"JScriptWithScope", "", <<<<"x", <<"Null">>>>>>>>}
    \cup {<<"Null">>, <<"MinKey">>, <<"MaxKey">>}

\* the documents held in the containers
ElemLeaf == {<<"Int32", One>>, <<"UString", "foo">>, <<"MinKey">>}

ContainerTags == {"Embedded", "Array"}

\* the sequences of documents with n fields in all, those of nested containers
\* counted
RECURSIVE Values(_)
Values(n) ==
    IF n = 0 THEN {<<>>}
    ELSE {<<l>> \o rest : l \in ElemLeaf, rest \in Values(n - 1)}
         \cup UNION {{<<<<t, inner>>>> \o rest :
                         t \in ContainerTags, inner \in Values(m),
                         rest \in Values(n - 1 - m)} : m \in 0..(n - 1)}

KeyLayouts == {"index", "mixed"}

MixedKeys == <<"2", "0", "1", "a", "10">>

\* the key of the i-th field: its index, or sparse, unordered and non-numeric
KeyAt(layout, i) ==
    IF layout = "index" THEN ToStr(i - 1)
    ELSE IF i <= Len(MixedKeys) THEN MixedKeys[i]
    ELSE "k" \o ToStr(i)

\* a container holding the values under the keys of the layout, at every level
RECURSIVE Keyed(_, _)
Keyed(layout, vals) ==
    [i \in 1..Len(vals) |->
        <<KeyAt(layout, i),
          IF vals[i][1] \in ContainerTags
          THEN <<vals[i][1], Keyed(layout, vals[i][2])>>
          ELSE vals[i]>>]

\* json::Json values
JsonLeaves == {<<"Null">>, <<"Number", <<FALSE, 2, <<1, 0, 1>>>>>>,
               <<"String", "foo">>, <<"Boolean", FALSE>>}

\* the sequences over S of length at most n
RECURSIVE SeqsUpTo(_, _)
SeqsUpTo(S, n) ==
    IF n = 0 THEN {<<>>}
    ELSE LET shorter == SeqsUpTo(S, n - 1)
         IN  shorter \cup {Append(q, x) : q \in {r \in shorter : Len(r) = n - 1}, x \in S}

MapKeys == {"a", "b", "0"}

\* a map's entries in the order its iterator yields them: the keys differ
Entries(S, n) ==
    {e \in SeqsUpTo(MapKeys \X S, n) :
        \A i, j \in 1..Len(e) : i # j => e[i][1] # e[j][1]}

JsonInner ==
    JsonLeaves
    \cup {<<"List", <<>>>>, <<"List", <<<<"Null">>>>>>, <<"Object", <<>>>>,
          <<"Object", <<<<"a", <<"String", "foo">>>>>>>>}

JsonValues ==
    JsonInner
    \cup {<<"List", l>> : l \in SeqsUpTo(JsonInner, MaxLen)}
    \cup {<<"Object", e>> : e \in Entries(JsonLeaves, MaxLen)}
    \cup {<<"List", <<<<"Null">>, <<"Number", <<FALSE, 2, <<1, 0, 1>>>>>>,
                      <<"String", "foo">>, <<"Boolean", FALSE>>>>>>}

SmallInts == {One, <<2, 0, 0, 0>>, <<3, 0, 0, 0>>, <<255, 255, 255, 255>>}

\* the ~[i32] values: the short lists, and one of twelve elements
I32Lists == SeqsUpTo(SmallInts, MaxLen) \cup {[i \in 1..12 |-> One]}

(***************************************************************************)
(* The calls: to_bson_t of a value of type T, from_bson_t::<T> of a        *)
(* document.                                                               *)
(***************************************************************************)
ScalarTypes == {<<T>> : T \in IntKinds \cup FloatKinds \cup {"f64", "str"}}

CompositeTypes == {<<"Json">>, <<"vec", <<"i32">>>>, <<"vec", <<"str">>>>,
                   <<"vec", <<"Json">>>>, <<"map", <<"i32">>>>, <<"map", <<"Json">>>>,
                   <<"BsonDocument">>}

BoxTypes == {<<"box", <<"i32">>>>, <<"box", <<"vec", <<"u8">>>>>>}

Types == ScalarTypes \cup CompositeTypes \cup BoxTypes

\* whether a call's outcome depends on the platform's word
ReadsWord(T) == T[1] \in {"int", "uint"}

\* the types whose calls are made on a platform of word w: those that read the
\* word on both platforms, the others on one
TypesOn(w) == {T \in Types : w = 8 \/ ReadsWord(T)}

Words == {4, 8}

None == <<"none">>

\* the values to_bson_t is called on
NativeValues(T, w) ==
    CASE T[1] \in IntKinds -> IntValues(T[1], w)
      [] T[1] \in FloatKinds \cup {"f64"} -> FloatValues(T[1])
      [] T = <<"Json">> -> JsonValues
      [] T = <<"vec", <<"i32">>>> -> I32Lists
      [] T = <<"box", <<"vec", <<"u8">>>>>> -> SeqsUpTo({<<0>>, <<255>>}, MaxLen)
      [] T = <<"box", <<"i32">>>> -> SmallInts
      [] T = <<"map", <<"i32">>>> -> Entries(SmallInts, MaxLen)
      [] T = <<"BsonDocument">> -> UNION {{Keyed("mixed", v) : v \in Values(n)} : n \in 0..1}
      [] OTHER -> {}

(***************************************************************************)
(* The state machine: a call is chosen, and made.                          *)
(***************************************************************************)
ToCall ==
    /\ op = "to"
    /\ target \in TypesOn(word)
    /\ arg \in NativeValues(target, word)

FromLeafCall ==
    /\ op = "from"
    /\ target \in TypesOn(word)
    /\ arg \in LeafDocs

\* every type is tried on the containers of at most one field, the composite
\* types on all
FromContainerCall ==
    /\ op = "from"
    /\ target \in TypesOn(word)
    /\ \E t \in ContainerTags, layout \in KeyLayouts, n \in 0..MaxFields :
          /\ target \in CompositeTypes \/ n <= 1
          /\ ~ReadsWord(target)
          /\ \E vals \in Values(n) : arg = <<t, Keyed(layout, vals)>>

Init ==
    /\ pc = "call"
    /\ word \in Words
    /\ bson = None
    /\ out = None
    /\ visited = 0
    /\ ToCall \/ FromLeafCall \/ FromContainerCall

Visited(T, w, d) == IF T[1] = "vec" THEN VecVisited(T[2], w, d) ELSE 0

\* arg.to_bson_t()
ToBsonT ==
    /\ pc = "call" /\ op = "to"
    /\ bson' = ToBson(target, word, arg)
    /\ pc' = "to_done"
    /\ UNCHANGED <<word, op, target, arg, out, visited>>

\* BsonFormattable::from_bson_t::<target>(arg)
FromBsonT ==
    /\ pc = "call" /\ op = "from"
    /\ out' = FromBson(target, word, arg)
    /\ visited' = Visited(target, word, arg)
    /\ pc' = "from_done"
    /\ UNCHANGED <<word, op, target, arg, bson>>

\* BsonFormattable::from_bson_t::<target>(arg.to_bson_t())
RoundTrip ==
    /\ pc = "to_done"
    /\ out' = FromBson(target, word, bson)
    /\ visited' = Visited(target, word, bson)
    /\ pc' = "round_done"
    /\ UNCHANGED <<word, op, target, arg, bson>>

Next == ToBsonT \/ FromBsonT \/ RoundTrip

Spec == Init /\ [][Next]_vars

(***************************************************************************)
(* What the claims are stated with.                                        *)
(***************************************************************************)
Decimals == <<"0", "1", "2", "3", "4", "5", "6", "7", "8", "9", "10", "11", "12">>

\* the variants from_bson_t::<Json> is to translate, and those it is to refuse
JsonNumberTags == {"Double", "UTCDate", "Int32", "Timestamp", "Int64"}

JsonStringTags == {"UString", "JScript"}

JsonOkTags == JsonNumberTags \cup JsonStringTags \cup {"Bool", "Null"}

JsonErrTags == {"Binary", "ObjectId", "Regex", "JScriptWithScope", "MinKey", "MaxKey"}

\* a document all of whose values, at every depth, are JSON-representable
RECURSIVE Representable(_)
Representable(d) ==
    IF d[1] \in ContainerTags
    THEN \A i \in 1..Len(d[2]) : Representable(d[2][i][2])
    ELSE d[1] \in JsonOkTags

\* the number an i32 stands for
ToInt(v) == v[1] + 256 * v[2] + 65536 * v[3]
            + 16777216 * (IF v[4] >= 128 THEN v[4] - 256 ELSE v[4])

\* byte k (from 1, the lowest) of the two's complement of the 32-bit number n
ByteOf(n, k) ==
    IF k <= 4 THEN (n \div (CASE k = 1 -> 1 [] k = 2 -> 256 [] k = 3 -> 65536
                              [] k = 4 -> 16777216)) % 256
    ELSE IF n < 0 THEN 255 ELSE 0

\* the variants a scalar kind's from_bson_t is to accept
Accepted(T) ==
    CASE T \in FloatKinds \cup {"f64"} -> {"Double"}
      [] T \in I32Kinds \cup {"i32"} -> {"Int32"}
      [] T = "i64" -> {"Int64", "UTCDate", "Timestamp"}

\* the fields of container c whose value T::from_bson_t refuses
Failing(T, w, c) == {i \in 1..Len(c) : ~IsOk(FromBson(T, w, c[i][2]))}

Min(S) == CHOOSE x \in S : \A y \in S : x <= y

Keys(c) == {c[i][1] : i \in 1..Len(c)}

JsonExample == <<"List", <<<<"Null">>, <<"Number", <<FALSE, 2, <<1, 0, 1>>>>>>,
                           <<"String", "foo">>, <<"Boolean", FALSE>>>>>>

(***************************************************************************)
(* C1: from_bson_t::<Json> of Embedded(c) or Array(c) whose values are all *)
(* JSON-representable at every depth succeeds: Embedded(c) gives an Object *)
(* with one entry per field of c, Array(c) a List of the fields of c in    *)
(* stored order, each converted by from_bson_t::<Json>.                    *)
(***************************************************************************)
C1_JsonOfContainers ==
    (pc = "from_done" /\ target = <<"Json">> /\ arg[1] \in ContainerTags
                      /\ Representable(arg))
    => /\ IsOk(out)
       /\ arg[1] = "Embedded" =>
            /\ out[2][1] = "Object"
            /\ DOMAIN out[2][2] = Keys(arg[2])
            /\ \A i \in 1..Len(arg[2]) :
                  Ok(out[2][2][arg[2][i][1]]) = FromBson(<<"Json">>, word, arg[2][i][2])
       /\ arg[1] = "Array" =>
            /\ out[2][1] = "List"
            /\ Len(out[2][2]) = Len(arg[2])
            /\ \A i \in 1..Len(arg[2]) :
                  Ok(out[2][2][i]) = FromBson(<<"Json">>, word, arg[2][i][2])

(***************************************************************************)
(* C2: for every scalar kind T and every value v of T,                     *)
(* from_bson_t::<T>(v.to_bson_t()) is Ok(v).                               *)
(***************************************************************************)
C2_ScalarRoundTrip ==
    (pc = "round_done" /\ target[1] \in IntKinds \cup FloatKinds \cup {"f64"})
    => out = Ok(arg)

(***************************************************************************)
(* C3: to_bson_t of a list l of i32 of length n is Array(c), c holding     *)
(* exactly n fields, the i-th under the decimal key of i - 1 with the      *)
(* value Int32(l[i]); and from_bson_t::<~[i32]> of it is Ok(l).            *)
(***************************************************************************)
C3_ListRoundTrip ==
    (op = "to" /\ target = <<"vec", <<"i32">>>> /\ pc # "call")
    => /\ bson[1] = "Array"
       /\ Len(bson[2]) = Len(arg)
       /\ \A i \in 1..Len(arg) : bson[2][i] = <<Decimals[i], <<"Int32", arg[i]>>>>
       /\ pc = "round_done" => out = Ok(arg)

C3_Witness ==
    /\ pc = "round_done" /\ target = <<"vec", <<"i32">>>>
    /\ Len(arg) = 12
    /\ bson[2][12][1] = "11"
    /\ out = Ok(arg)

(***************************************************************************)
(* C4: from_bson_t::<Json> of a document that is no container succeeds     *)
(* exactly for Double, UString, Bool, UTCDate, Null, JScript, Int32,       *)
(* Timestamp and Int64 (the numeric variants give a Number, UString and    *)
(* JScript a String, Bool a Boolean, Null Null) and is an error for        *)
(* Binary, ObjectId, Regex, JScriptWithScope, MinKey and MaxKey whatever   *)
(* the payload.                                                            *)
(***************************************************************************)
C4_JsonOfLeaves ==
    (pc = "from_done" /\ target = <<"Json">> /\ arg[1] \notin ContainerTags)
    => /\ IsOk(out) <=> arg[1] \in JsonOkTags
       /\ ~IsOk(out) <=> arg[1] \in JsonErrTags
       /\ arg[1] \in JsonNumberTags => out[2][1] = "Number"
       /\ arg[1] \in JsonStringTags => out[2] = <<"String", arg[2]>>
       /\ arg[1] = "Bool" => out[2] = <<"Boolean", arg[2]>>
       /\ arg[1] = "Null" => out[2] = <<"Null">>

C4_Witness ==
    /\ pc = "from_done" /\ target = <<"Json">>
    /\ arg = <<"Regex", "A", "B">>
    /\ ~IsOk(out)

(***************************************************************************)
(* C5: from_bson_t::<HashMap<~str,V>> gives the same result for Array(c)   *)
(* and for Embedded(c): Ok of the map taking each key k of c to            *)
(* V::from_bson_t of c's value at k, or the same error; every other        *)
(* variant is an error.                                                    *)
(***************************************************************************)
C5_MapLeniency ==
    (pc = "from_done" /\ target[1] = "map")
    => IF arg[1] \in ContainerTags
       THEN /\ out = FromBson(target, word, <<"Embedded", arg[2]>>)
            /\ out = FromBson(target, word, <<"Array", arg[2]>>)
            /\ IsOk(out) =>
                 /\ DOMAIN out[2] = Keys(arg[2])
                 /\ \A i \in 1..Len(arg[2]) :
                       Ok(out[2][arg[2][i][1]]) = FromBson(target[2], word, arg[2][i][2])
            /\ IsOk(out) <=> Failing(target[2], word, arg[2]) = {}
       ELSE ~IsOk(out)

C5_Witness ==
    /\ pc = "from_done" /\ target = <<"map", <<"i32">>>>
    /\ arg[1] = "Array" /\ Len(arg[2]) = 2 /\ arg[2][1][1] = "2"
    /\ IsOk(out)
    /\ out[2]["2"] = One

(***************************************************************************)
(* C6: when from_bson_t::<~[T]> is given Array(c) and a field of c fails   *)
(* T::from_bson_t, the result is the error T::from_bson_t returns for the  *)
(* first failing field in stored order, no later field is converted, and   *)
(* no list is returned.                                                    *)
(***************************************************************************)
C6_FirstFailure ==
    (pc = "from_done" /\ target[1] = "vec" /\ arg[1] = "Array"
                      /\ Failing(target[2], word, arg[2]) # {})
    => LET first == Min(Failing(target[2], word, arg[2]))
       IN  /\ ~IsOk(out)
           /\ out = FromBson(target[2], word, arg[2][first][2])
           /\ visited = first

C6_Witness ==
    /\ pc = "from_done" /\ target = <<"vec", <<"str">>>>
    /\ arg[1] = "Array" /\ Len(arg[2]) = 3
    /\ Failing(<<"str">>, word, arg[2]) = {2, 3}
    /\ arg[2][2][2] # arg[2][3][2]
    /\ out = Err("could not convert %? to string", <<arg[2][2][2]>>)
    /\ visited = 2

(***************************************************************************)
(* C7: to_bson_t of a Json is defined for every value and maps by kind:    *)
(* Null to Null, Number(n) to Double(n), String(s) to UString(s),          *)
(* Boolean(b) to Bool(b), a List to the Array holding element i under the  *)
(* decimal key of i in list order, an Object to the Embedded holding its   *)
(* entries; List([Null, Number(5.0), String("foo"), Boolean(false)]) gives *)
(* Array of "0": Null, "1": Double(5.0), "2": UString("foo"),              *)
(* "3": Bool(false).                                                       *)
(***************************************************************************)
C7_JsonToBson ==
    (op = "to" /\ target = <<"Json">> /\ pc # "call")
    => /\ arg[1] = "Null" => bson = <<"Null">>
       /\ arg[1] = "Number" => bson = <<"Double", arg[2]>>
       /\ arg[1] = "String" => bson = <<"UString", arg[2]>>
       /\ arg[1] = "Boolean" => bson = <<"Bool", arg[2]>>
       /\ arg[1] = "List" =>
            /\ bson[1] = "Array"
            /\ Len(bson[2]) = Len(arg[2])
            /\ \A i \in 1..Len(arg[2]) :
                  bson[2][i] = <<Decimals[i], ToBson(<<"Json">>, word, arg[2][i])>>
       /\ arg[1] = "Object" =>
            /\ bson[1] = "Embedded"
            /\ Len(bson[2]) = Len(arg[2])
            /\ \A i \in 1..Len(arg[2]) :
                  bson[2][i] = <<arg[2][i][1], ToBson(<<"Json">>, word, arg[2][i][2])>>
       /\ arg = JsonExample =>
            bson = <<"Array", <<<<"0", <<"Null">>>>,
                               <<"1", <<"Double", <<FALSE, 2, <<1, 0, 1>>>>>>>>,
                               <<"2", <<"UString", "foo">>>>,
                               <<"3", <<"Bool", FALSE>>>>>>>>

C7_Witness ==
    /\ pc = "to_done" /\ target = <<"Json">>
    /\ arg = JsonExample
    /\ bson[1] = "Array" /\ Len(bson[2]) = 4

(***************************************************************************)
(* C8: a scalar from_bson_t succeeds exactly on the variants it accepts:   *)
(* f64 and the float kinds on Double, i32 and the kinds routed through it  *)
(* on Int32, i64 on Int64, UTCDate and Timestamp, whose 64-bit integer it  *)
(* returns unchanged.                                                      *)
(***************************************************************************)
C8_ScalarAccepts ==
    (pc = "from_done" /\ target[1] \in IntKinds \cup FloatKinds \cup {"f64"})
    => /\ IsOk(out) <=> arg[1] \in Accepted(target[1])
       /\ (target[1] = "i64" /\ arg[1] \in Accepted("i64")) => out = Ok(arg[2])

C8_Witness ==
    /\ pc = "from_done" /\ target = <<"i64">>
    /\ arg[1] = "UTCDate" /\ arg[2][1] = 150
    /\ out = Ok(arg[2])

(***************************************************************************)
(* C9: from_bson_t::<~[T]>(Array(c)) builds its list from the fields of c  *)
(* in stored order and ignores the keys: with keys sparse, non-numeric or  *)
(* out of order, the list has one element per field in field order; every  *)
(* variant other than Array, Embedded too, is an error.                    *)
(***************************************************************************)
C9_StoredOrder ==
    (pc = "from_done" /\ target[1] = "vec")
    => IF arg[1] = "Array"
       THEN /\ Failing(target[2], word, arg[2]) = {} =>
                 /\ IsOk(out)
                 /\ Len(out[2]) = Len(arg[2])
                 /\ \A i \in 1..Len(arg[2]) :
                       Ok(out[2][i]) = FromBson(target[2], word, arg[2][i][2])
            /\ out = FromBson(target, word,
                       <<"Array", [i \in 1..Len(arg[2]) |-> <<Decimals[i], arg[2][i][2]>>]>>)
       ELSE ~IsOk(out)

C9_Witness ==
    /\ pc = "from_done" /\ target = <<"vec", <<"i32">>>>
    /\ arg[1] = "Array" /\ Len(arg[2]) = 3
    /\ arg[2][1][1] = "2" /\ arg[2][2][1] = "0" /\ arg[2][3][1] = "1"
    /\ out = Ok(<<One, One, One>>)

(***************************************************************************)
(* C10: from_bson_t::<T>(Int32(v)), T an integer kind routed through i32,  *)
(* is never an error and makes no range check: it is Ok of v reduced       *)
(* modulo 2^width(T), in T's bytes.                                        *)
(***************************************************************************)
C10_Narrowing ==
    (pc = "from_done" /\ target[1] \in I32Kinds /\ arg[1] = "Int32")
    => /\ IsOk(out)
       /\ Len(out[2]) = Width(target[1], word)
       /\ \A k \in 1..Len(out[2]) : out[2][k] = ByteOf(ToInt(arg[2]), k)

C10_Witness ==
    /\ pc = "from_done" /\ target = <<"i8">>
    /\ arg = <<"Int32", <<128, 127, 0, 0>>>>
    /\ out = Ok(<<128>>)

====
